---- MODULE Spec2Model ----
(***************************************************************************)
(* Model of MecanumDriveController (src/src/mecanum_drive_controller.cpp): *)
(* the command channel (input_ref_), the staleness policy, the inverse     *)
(* kinematics, the actuation writes, the telemetry publisher and the       *)
(* lifecycle transitions.                                                  *)
(*                                                                         *)
(* A double is a pair <<n, d>>: the rational n/d in lowest terms (d > 0),  *)
(* or one of the IEEE specials +Inf = <<1,0>>, -Inf = <<-1,0>> and         *)
(* NaN = <<0,0>>.  Rounding is not modelled.  Times and durations are      *)
(* integer ticks.                                                          *)
(***************************************************************************)
EXTENDS Integers, Sequences, FiniteSets, TLC

\* ------------------------------------------------------------------ bounds
MaxTime == 3
MaxTimeout == 1

\* --------------------------------------------------------- program constants
NR_CMD_ITFS == 4
NR_REF_ITFS == 3
FRONT_LEFT == 0
FRONT_RIGHT == 1
REAR_RIGHT == 2
REAR_LEFT == 3

\* ----------------------------------------------------------------- doubles
Abs(n) == IF n < 0 THEN -n ELSE n
Sign(n) == IF n < 0 THEN -1 ELSE IF n > 0 THEN 1 ELSE 0

RECURSIVE GCD(_, _)
GCD(a, b) == IF b = 0 THEN a ELSE GCD(b, a % b)

\* the double n/d, normalised; d = 0 gives the specials
DNorm(n, d) ==
    IF d = 0 THEN <<Sign(n), 0>>
    ELSE LET g == GCD(Abs(n), Abs(d))
             s == Sign(d)
         IN <<(s * n) \div g, (s * d) \div g>>

NaN == <<0, 0>>
Inf == <<1, 0>>
Zero == <<0, 1>>
One == <<1, 1>>
D(n) == <<n, 1>>

isnan(v) == v = NaN
IsInf(v) == v[2] = 0 /\ v[1] # 0

\* IEEE addition: NaN propagates, Inf + (-Inf) is NaN
DAdd(a, b) ==
    IF isnan(a) \/ isnan(b) THEN NaN
    ELSE IF IsInf(a) /\ IsInf(b) THEN (IF a = b THEN a ELSE NaN)
    ELSE IF IsInf(a) THEN a
    ELSE IF IsInf(b) THEN b
    ELSE DNorm(a[1] * b[2] + b[1] * a[2], a[2] * b[2])

DNeg(a) == <<-a[1], a[2]>>
DSub(a, b) == DAdd(a, DNeg(b))

\* IEEE multiplication: NaN propagates, 0 * Inf is NaN
DMul(a, b) == DNorm(a[1] * b[1], a[2] * b[2])

\* IEEE division a / b for b # 0 (b = 0 is excluded by the radius > 0 parameter)
DDiv(a, b) == IF isnan(a) \/ isnan(b) THEN NaN
              ELSE IF IsInf(b) THEN (IF IsInf(a) THEN NaN ELSE Zero)
              ELSE DMul(a, DNorm(b[2], b[1]))

\* ------------------------------------------------------------------ inputs
Timeouts == 0..MaxTimeout
Stamps == 0..MaxTime

\* params_.kinematics: wheels_radius, sum_of_robot_center_projection_on_X_Y_axis
\* and base_frame_offset {x, y, theta}; theta counts quarter turns
PlainGeometry ==
    [radius |-> <<1, 2>>, k |-> <<3, 10>>, theta |-> 0, off_x |-> Zero, off_y |-> Zero]

\* twists an external producer (or an upstream chained controller) may send:
\* a valid one, one with a NaN component, one with an infinite component
ValidTwist == <<One, Zero, Zero>>
NaNTwist == <<One, NaN, Zero>>
InfTwist == <<Inf, Zero, Zero>>
Twists == {ValidTwist, NaNTwist}

\* measured wheel velocities the hardware may report
Measured == { <<Zero, Zero, Zero, Zero>>, <<D(1), D(2), D(3), D(4)>> }

\* which of the four writes of a control cycle the actuation layer reports as
\* failed: none, or the one with this index
NoFailure == NR_CMD_ITFS
FailChoices == {NoFailure, REAR_RIGHT}

\* ------------------------------------------------------------------- state
VARIABLES
    lifecycle,               \* "unconfigured", "inactive", "active", "crashed"
    chained,                 \* ChainableControllerInterface: in chained mode
    clock,                   \* get_node()->now() and the scheduler's time
    params,                  \* params_.kinematics
    ref_timeout,             \* ref_timeout_
    realtime_data,           \* input_ref_: *realtime_data_, <<>> is a null shared_ptr
    non_realtime_data,       \* input_ref_: *non_realtime_data_
    new_data_available,      \* input_ref_: new_data_available_
    mutex,                   \* input_ref_: mutex_ held by writeFromNonRT
    pc_cb,                   \* reference_callback: "idle" or "writing"
    cb_msg,                  \* the message reference_callback holds: the one being
                             \* written, or the one it rejected last; <<>> if none
    reference_interfaces,    \* reference_interfaces_
    command_interfaces,      \* values of command_interfaces_[0..3]
    state_interfaces,        \* values of state_interfaces_[0..3]
    write_log,               \* the set_value calls of the last handler that wrote
    pub_turn,                \* controller_state_publisher_: whose turn it is
    pub_msg,                 \* controller_state_publisher_->msg_
    pc_rt,                   \* control cycle: "idle", or "ref_done" when the
                             \* references of this cycle are settled
    ret,                     \* return value of the last update_and_write_commands
    decision,                \* what the last update_reference_from_subscribers decided
    telemetry,               \* the last update_and_write_commands published telemetry
    fresh_activation         \* active, and no reference_callback began since on_activate

vars == <<lifecycle, chained, clock, params, ref_timeout, realtime_data,
          non_realtime_data, new_data_available, mutex, pc_cb, cb_msg,
          reference_interfaces, command_interfaces, state_interfaces, write_log,
          pub_turn, pub_msg, pc_rt, ret, decision, telemetry,
          fresh_activation>>

buffer_vars == <<realtime_data, non_realtime_data, new_data_available, mutex>>
cb_vars == <<pc_cb, cb_msg>>
pub_vars == <<pub_turn, pub_msg>>
cycle_vars == <<pc_rt, ret, decision, telemetry>>
config_vars == <<params, ref_timeout>>

\* ---------------------------------------------------------------- messages
Msg(tw, stamp) == [stamp |-> stamp, x |-> tw[1], y |-> tw[2], z |-> tw[3]]

\* the message after reset_controller_reference_msg(msg, node)
reset_controller_reference_msg(now) == [stamp |-> now, x |-> NaN, y |-> NaN, z |-> NaN]

\* mutant: the check of linear.y is forgotten
is_msg_valid_no_y(msg) == ~isnan(msg.x) /\ ~isnan(msg.z)

is_msg_valid(msg) == ~isnan(msg.x) /\ ~isnan(msg.y) /\ ~isnan(msg.z)

IsSentinel(msg) == isnan(msg.x) /\ isnan(msg.y) /\ isnan(msg.z)

\* -------------------------------------------------- realtime_tools::RealtimeBuffer
\* readFromRT swaps the two slots when it gets the mutex and new data is there
Swaps == ~mutex /\ new_data_available

\* the slot readFromRT returns, and the other slot, after the call.  The message
\* a swap moves into the non-realtime slot is never read again (the next
\* writeFromNonRT overwrites it before the next swap), so that slot is kept
\* empty until the next write.
ReadFromRT == IF Swaps THEN non_realtime_data ELSE realtime_data
OtherAfterRead == IF Swaps THEN <<>> ELSE non_realtime_data

\* ------------------------------------------------------------------- Init
\* mutant: the reset forgets angular z
NaNRefsButZ == <<NaN, NaN, Zero>>

\* the references after the reset at the end of update_and_write_commands
NaNRefs == <<NaN, NaN, NaN>>

DefaultStateMsg ==
    [stamp |-> 0, front_left |-> Zero, front_right |-> Zero, back_right |-> Zero,
     back_left |-> Zero, ref_x |-> Zero, ref_y |-> Zero, ref_z |-> Zero]

Init ==
    /\ lifecycle = "unconfigured"
    /\ chained = FALSE
    /\ clock = 1
    /\ params = [radius |-> One, k |-> Zero, theta |-> 0, off_x |-> Zero, off_y |-> Zero]
    /\ ref_timeout = 0
    /\ realtime_data = <<>>
    /\ non_realtime_data = <<>>
    /\ new_data_available = FALSE
    /\ mutex = FALSE
    /\ pc_cb = "idle"
    /\ cb_msg = <<>>
    /\ reference_interfaces = <<>>
    /\ command_interfaces = <<NaN, NaN, NaN, NaN>>
    /\ state_interfaces = <<Zero, Zero, Zero, Zero>>
    /\ write_log = <<>>
    /\ pub_turn = "REALTIME"
    /\ pub_msg = DefaultStateMsg
    /\ pc_rt = "idle"
    /\ ret = "NONE"
    /\ decision = "NONE"
    /\ telemetry = FALSE
    /\ fresh_activation = FALSE

\* ------------------------------------------------------------- lifecycle
\* on_configure: reads the parameters, creates the subscription, writes a stop
\* message into input_ref_ and stamps the state publisher's message
on_configure(geometry, timeout) ==
    /\ lifecycle = "unconfigured"
    /\ lifecycle' = "inactive"
    /\ params' = geometry
    /\ ref_timeout' = timeout
    /\ non_realtime_data' = <<reset_controller_reference_msg(clock)>>
    /\ new_data_available' = TRUE
    /\ pub_msg' = [pub_msg EXCEPT !.stamp = clock]
    /\ UNCHANGED <<chained, clock, realtime_data, mutex, cb_vars, reference_interfaces,
                   command_interfaces, state_interfaces, write_log, pub_turn,
                   cycle_vars, fresh_activation>>

\* on_export_reference_interfaces: resize(NR_REF_ITFS, NaN)
ResizeRefs(refs) ==
    [i \in 1..NR_REF_ITFS |-> IF i <= Len(refs) THEN refs[i] ELSE NaN]

on_export_reference_interfaces ==
    /\ lifecycle = "inactive"
    /\ Len(reference_interfaces) # NR_REF_ITFS
    /\ reference_interfaces' = ResizeRefs(reference_interfaces)
    /\ UNCHANGED <<lifecycle, chained, clock, config_vars, buffer_vars, cb_vars,
                   command_interfaces, state_interfaces, write_log, pub_vars,
                   cycle_vars, fresh_activation>>

\* mutant: only the switch to chained mode is accepted
on_set_chained_mode_to_only(chained_mode) == chained_mode

\* on_set_chained_mode always returns true; the caller then switches the mode
on_set_chained_mode(chained_mode) == TRUE \/ chained_mode

SetChainedMode(chained_mode) ==
    /\ lifecycle = "inactive"
    /\ Len(reference_interfaces) = NR_REF_ITFS
    /\ chained_mode # chained
    /\ chained' = IF on_set_chained_mode(chained_mode) THEN chained_mode ELSE chained
    /\ UNCHANGED <<lifecycle, clock, config_vars, buffer_vars, cb_vars,
                   reference_interfaces, command_interfaces, state_interfaces,
                   write_log, pub_vars, cycle_vars, fresh_activation>>

\* on_activate: reset_controller_reference_msg(*(input_ref_.readFromRT()), node).
\* The message readFromRT returns is reset in place; a null pointer (nothing was
\* ever swapped in) is dereferenced and the process dies.
ActivatedMsg(now) == <<reset_controller_reference_msg(now)>>

on_activate ==
    /\ lifecycle = "inactive"
    /\ Len(reference_interfaces) = NR_REF_ITFS
    /\ non_realtime_data' = OtherAfterRead
    /\ new_data_available' = (new_data_available /\ ~Swaps)
    /\ IF ReadFromRT = <<>>
       THEN /\ lifecycle' = "crashed"
            /\ realtime_data' = ReadFromRT
            /\ fresh_activation' = FALSE
       ELSE /\ lifecycle' = "active"
            /\ realtime_data' = ActivatedMsg(clock)
            /\ fresh_activation' = TRUE
    /\ UNCHANGED <<chained, clock, config_vars, mutex, cb_vars, reference_interfaces,
                   command_interfaces, state_interfaces, write_log, pub_vars, cycle_vars>>

\* ------------------------------------------------------- actuation writes
\* command_interfaces_[itf].set_value(value) for each <<itf, value>> of calls, in
\* order; the write to the interface `failed` is reported as failed and leaves
\* the interface as it was
RECURSIVE SetValues(_, _, _)
SetValues(cmds, calls, failed) ==
    IF calls = <<>> THEN cmds
    ELSE LET c == Head(calls)
             next == IF c[1] = failed THEN cmds ELSE [cmds EXCEPT ![c[1] + 1] = c[2]]
         IN SetValues(next, Tail(calls), failed)

WriteLog(calls, failed) ==
    [i \in 1..Len(calls) |->
        [itf |-> calls[i][1], value |-> calls[i][2], ok |-> calls[i][1] # failed]]

\* mutant: the loop stops one interface early
DeactivateCallsShort == [i \in 1..(NR_CMD_ITFS - 1) |-> <<i - 1, NaN>>]

\* on_deactivate: for (i = 0; i < NR_CMD_ITFS; ++i) set_value(NaN)
DeactivateCalls == [i \in 1..NR_CMD_ITFS |-> <<i - 1, NaN>>]

on_deactivate ==
    /\ lifecycle = "active"
    /\ pc_rt = "idle"
    /\ lifecycle' = "inactive"
    /\ command_interfaces' = SetValues(command_interfaces, DeactivateCalls, NoFailure)
    /\ write_log' = WriteLog(DeactivateCalls, NoFailure)
    /\ fresh_activation' = FALSE
    /\ UNCHANGED <<chained, clock, config_vars, buffer_vars, cb_vars,
                   reference_interfaces, state_interfaces, pub_vars, cycle_vars>>

\* ------------------------------------------------------ reference_callback
\* mutant: a zero header stamp is left as it is
StampedNever(msg, now) == msg

\* a zero header stamp is replaced by the current time
Stamped(msg, now) == IF msg.stamp = 0 THEN [msg EXCEPT !.stamp = now] ELSE msg

\* mutant: every message is written, whatever its age
AcceptsAnyAge(msg, now, timeout) == TRUE

\* ref_timeout_ == 0 || age_of_last_command <= ref_timeout_
Accepts(msg, now, timeout) == timeout = 0 \/ now - msg.stamp <= timeout

\* mutant: the else branch leaves the message as it came
RejectedMsgKept(msg, now) == msg

\* what the else branch leaves in the callback's message
RejectedMsg(msg, now) == reset_controller_reference_msg(now)

\* reference_callback up to the point where writeFromNonRT holds the mutex, or
\* the whole callback when the message is rejected
reference_callback(msg) ==
    /\ lifecycle \in {"inactive", "active"}
    /\ pc_cb = "idle"
    /\ LET m == Stamped(msg, clock)
       IN IF Accepts(m, clock, ref_timeout)
          THEN /\ pc_cb' = "writing"
               /\ cb_msg' = <<m>>
               /\ mutex' = TRUE
          ELSE /\ pc_cb' = "idle"
               /\ cb_msg' = <<RejectedMsg(m, clock)>>
               /\ mutex' = mutex
    /\ fresh_activation' = FALSE
    /\ UNCHANGED <<lifecycle, chained, clock, config_vars, realtime_data,
                   non_realtime_data, new_data_available, reference_interfaces,
                   command_interfaces, state_interfaces, write_log, pub_vars,
                   cycle_vars>>

\* input_ref_.writeFromNonRT(msg): copy into the non-realtime slot, flag, unlock
writeFromNonRT ==
    /\ pc_cb = "writing"
    /\ lifecycle \in {"inactive", "active"}
    /\ non_realtime_data' = cb_msg
    /\ new_data_available' = TRUE
    /\ mutex' = FALSE
    /\ pc_cb' = "idle"
    /\ cb_msg' = <<>>
    /\ UNCHANGED <<lifecycle, chained, clock, config_vars, realtime_data,
                   reference_interfaces, command_interfaces, state_interfaces,
                   write_log, pub_vars, cycle_vars, fresh_activation>>

\* ----------------------------------------- update_reference_from_subscribers
\* mutant: no branch for a zero timeout, an aged message is stopped
BranchNoZeroTimeout(msg, age, timeout) ==
    IF ~is_msg_valid(msg) THEN "IGNORE"
    ELSE IF age <= timeout THEN "PASS"
    ELSE "STOP"

\* which branch the function takes for the message it read
Branch(msg, age, timeout) ==
    IF ~is_msg_valid(msg) THEN "IGNORE"
    ELSE IF age <= timeout THEN "PASS"
    ELSE IF timeout = 0 THEN "PASS_ONCE"
    ELSE "STOP"

\* mutant: the timed-out branch writes NaN
StopRefsNaN == <<NaN, NaN, NaN>>

\* the reference written by the timed-out branch
StopRefs == <<Zero, Zero, Zero>>

\* reference_interfaces_ when the function returns
RefsAfter(branch, msg, refs) ==
    CASE branch = "IGNORE" -> refs
      [] branch \in {"PASS", "PASS_ONCE"} -> <<msg.x, msg.y, msg.z>>
      [] branch = "STOP" -> StopRefs

\* mutant: the timed-out branch leaves the message as it is
MsgAfterStopKept(branch, msg) ==
    IF branch = "PASS_ONCE"
    THEN [msg EXCEPT !.x = NaN, !.y = NaN, !.z = NaN]
    ELSE msg

\* the message current_ref points to when the function returns
MsgAfter(branch, msg) ==
    IF branch \in {"PASS_ONCE", "STOP"}
    THEN [msg EXCEPT !.x = NaN, !.y = NaN, !.z = NaN]
    ELSE msg

Decision(branch) == IF branch = "PASS_ONCE" THEN "PASS" ELSE branch

update_reference_from_subscribers ==
    /\ lifecycle = "active"
    /\ ~chained
    /\ pc_rt = "idle"
    /\ LET current_ref == ReadFromRT[1]
           age_of_last_command == clock - current_ref.stamp
           branch == Branch(current_ref, age_of_last_command, ref_timeout)
       IN /\ realtime_data' = <<MsgAfter(branch, current_ref)>>
          /\ reference_interfaces' = RefsAfter(branch, current_ref, reference_interfaces)
          /\ decision' = Decision(branch)
    /\ non_realtime_data' = OtherAfterRead
    /\ new_data_available' = (new_data_available /\ ~Swaps)
    /\ pc_rt' = "ref_done"
    /\ UNCHANGED <<lifecycle, chained, clock, config_vars, mutex, cb_vars,
                   command_interfaces, state_interfaces, write_log, pub_vars, ret,
                   telemetry, fresh_activation>>

\* ------------------------------------------------- update_and_write_commands
\* cos and sin of base_frame_offset.theta, theta in quarter turns
Cos(q) == CASE q % 4 = 0 -> One [] q % 4 = 1 -> Zero [] q % 4 = 2 -> D(-1) [] OTHER -> Zero
Sin(q) == CASE q % 4 = 0 -> Zero [] q % 4 = 1 -> One [] q % 4 = 2 -> Zero [] OTHER -> D(-1)

\* tf2::Vector3::dot
Dot(a, b) == DAdd(DAdd(DMul(a[1], b[1]), DMul(a[2], b[2])), DMul(a[3], b[3]))

\* rotation_from_base_to_center * Vector3(ref[0], ref[1], 0.0)
Rotate(q, refs) ==
    LET v == <<refs[1], refs[2], Zero>>
    IN <<Dot(<<Cos(q), DNeg(Sin(q)), Zero>>, v),
         Dot(<<Sin(q), Cos(q), Zero>>, v),
         Dot(<<Zero, Zero, One>>, v)>>

\* velocity_in_center_frame_{linear_x_, linear_y_, angular_z_}
CenterFrame(refs, p) ==
    LET b == Rotate(p.theta, refs)
    IN <<DAdd(b[1], DMul(p.off_y, refs[3])),
         DSub(b[2], DMul(p.off_x, refs[3])),
         refs[3]>>

\* mutant: the rear wheels are exchanged
InverseKinematicsRearSwapped(c, p) ==
    LET inv == DDiv(One, p.radius)
        kw == DMul(p.k, c[3])
    IN <<DMul(inv, DSub(DSub(c[1], c[2]), kw)),
         DMul(inv, DAdd(DAdd(c[1], c[2]), kw)),
         DMul(inv, DSub(DAdd(c[1], c[2]), kw)),
         DMul(inv, DAdd(DSub(c[1], c[2]), kw))>>

\* the four wheel velocities, in the order FRONT_LEFT, FRONT_RIGHT, REAR_RIGHT,
\* REAR_LEFT
InverseKinematics(c, p) ==
    LET inv == DDiv(One, p.radius)
        kw == DMul(p.k, c[3])
    IN <<DMul(inv, DSub(DSub(c[1], c[2]), kw)),
         DMul(inv, DAdd(DAdd(c[1], c[2]), kw)),
         DMul(inv, DAdd(DSub(c[1], c[2]), kw)),
         DMul(inv, DSub(DAdd(c[1], c[2]), kw))>>

RefsValid(refs) == ~isnan(refs[1]) /\ ~isnan(refs[2]) /\ ~isnan(refs[3])

\* mutant: the else branch releases the wheels
FallbackVelocitiesNaN == <<NaN, NaN, NaN, NaN>>

\* the values of the else branch
FallbackVelocities == <<Zero, Zero, Zero, Zero>>

WheelVelocities(refs, p) ==
    IF RefsValid(refs) THEN InverseKinematics(CenterFrame(refs, p), p)
    ELSE FallbackVelocities

\* the set_value calls of one cycle, in the order of the code
CycleCalls(w) ==
    <<<<FRONT_LEFT, w[1]>>, <<FRONT_RIGHT, w[2]>>, <<REAR_RIGHT, w[3]>>,
      <<REAR_LEFT, w[4]>>>>

\* mutant: the rear measurements are exchanged
StateMsgRearSwapped(now, measured, refs) ==
    [stamp |-> now,
     front_left |-> measured[FRONT_LEFT + 1], front_right |-> measured[FRONT_RIGHT + 1],
     back_right |-> measured[REAR_LEFT + 1], back_left |-> measured[REAR_RIGHT + 1],
     ref_x |-> refs[1], ref_y |-> refs[2], ref_z |-> refs[3]]

\* the record filled in under the publisher's lock
StateMsg(now, measured, refs) ==
    [stamp |-> now,
     front_left |-> measured[FRONT_LEFT + 1], front_right |-> measured[FRONT_RIGHT + 1],
     back_right |-> measured[REAR_RIGHT + 1], back_left |-> measured[REAR_LEFT + 1],
     ref_x |-> refs[1], ref_y |-> refs[2], ref_z |-> refs[3]]

\* mutant: the message is filled in without asking for the lock
trylock_ignored == TRUE

\* controller_state_publisher_->trylock()
trylock == pub_turn = "REALTIME"

\* the value the function returns after its writes
ReturnValue(failed) == "OK"

update_and_write_commands(failed) ==
    /\ lifecycle = "active"
    /\ pc_rt = "ref_done"
    /\ LET calls == CycleCalls(WheelVelocities(reference_interfaces, params))
       IN /\ command_interfaces' = SetValues(command_interfaces, calls, failed)
          /\ write_log' = WriteLog(calls, failed)
    /\ IF trylock
       THEN /\ pub_msg' = StateMsg(clock, state_interfaces, reference_interfaces)
            /\ pub_turn' = "NON_REALTIME"
            /\ telemetry' = TRUE
       ELSE /\ UNCHANGED <<pub_msg, pub_turn>>
            /\ telemetry' = FALSE
    /\ reference_interfaces' = NaNRefs
    /\ ret' = ReturnValue(failed)
    /\ pc_rt' = "idle"
    /\ UNCHANGED <<lifecycle, chained, clock, config_vars, buffer_vars, cb_vars,
                   state_interfaces, decision, fresh_activation>>

\* ------------------------------------------------------------ environment
\* In chained mode a control cycle does not call
\* update_reference_from_subscribers: the upstream controller, updated before
\* this one, has written the exported reference interfaces ...
UpstreamWrite(twist) ==
    /\ lifecycle = "active"
    /\ chained
    /\ pc_rt = "idle"
    /\ reference_interfaces' = twist
    /\ pc_rt' = "ref_done"
    /\ UNCHANGED <<lifecycle, chained, clock, config_vars, buffer_vars, cb_vars,
                   command_interfaces, state_interfaces, write_log, pub_vars,
                   ret, decision, telemetry, fresh_activation>>

\* ... or has written nothing in this cycle
UpstreamSilent ==
    /\ lifecycle = "active"
    /\ chained
    /\ pc_rt = "idle"
    /\ pc_rt' = "ref_done"
    /\ UNCHANGED <<lifecycle, chained, clock, config_vars, buffer_vars, cb_vars,
                   reference_interfaces, command_interfaces, state_interfaces,
                   write_log, pub_vars, ret, decision, telemetry, fresh_activation>>

\* realtime_tools::RealtimePublisher::publishingLoop sends a copy of msg_ and
\* hands the turn back
publishingLoop ==
    /\ lifecycle \in {"inactive", "active"}
    /\ pub_turn = "NON_REALTIME"
    /\ pub_turn' = "REALTIME"
    /\ UNCHANGED <<lifecycle, chained, clock, config_vars, buffer_vars, cb_vars,
                   reference_interfaces, command_interfaces, state_interfaces,
                   write_log, pub_msg, cycle_vars, fresh_activation>>

\* the hardware reports new measured wheel velocities
ReadHardware(measured) ==
    /\ lifecycle = "active"
    /\ pc_rt = "idle"
    /\ measured # state_interfaces
    /\ state_interfaces' = measured
    /\ UNCHANGED <<lifecycle, chained, clock, config_vars, buffer_vars, cb_vars,
                   reference_interfaces, command_interfaces, write_log, pub_vars,
                   cycle_vars, fresh_activation>>

Tick ==
    /\ lifecycle # "crashed"
    /\ clock < MaxTime
    /\ clock' = clock + 1
    /\ UNCHANGED <<lifecycle, chained, config_vars, buffer_vars, cb_vars,
                   reference_interfaces, command_interfaces, state_interfaces,
                   write_log, pub_vars, cycle_vars, fresh_activation>>

\* The controller with a producer that stamps its messages freely, a reliable
\* actuation layer and no upstream controller.
Next ==
    \/ \E t \in Timeouts : on_configure(PlainGeometry, t)
    \/ on_export_reference_interfaces
    \/ on_activate
    \/ on_deactivate
    \/ \E tw \in Twists, st \in Stamps : reference_callback(Msg(tw, st))
    \/ writeFromNonRT
    \/ update_reference_from_subscribers
    \/ update_and_write_commands(NoFailure)
    \/ publishingLoop
    \/ Tick

Spec == Init /\ [][Next]_vars

\* The controller with an actuation layer that may report failed writes, an
\* upstream controller in chained mode, changing measurements and a producer
\* that leaves the stamping to the controller and may send infinite values;
\* the clock stands still.
NextActuation ==
    \/ on_configure(PlainGeometry, MaxTimeout)
    \/ on_export_reference_interfaces
    \/ \E b \in BOOLEAN : SetChainedMode(b)
    \/ on_activate
    \/ on_deactivate
    \/ \E tw \in {ValidTwist, InfTwist} : reference_callback(Msg(tw, 0))
    \/ writeFromNonRT
    \/ update_reference_from_subscribers
    \/ \E f \in FailChoices : update_and_write_commands(f)
    \/ \E tw \in {ValidTwist, NaNTwist, InfTwist} : UpstreamWrite(tw)
    \/ UpstreamSilent
    \/ publishingLoop
    \/ \E m \in Measured : ReadHardware(m)

SpecActuation == Init /\ [][NextActuation]_vars

\* The inverse kinematics on its own: a chained controller, just activated, with
\* one of several geometries without frame offset; the upstream controller
\* writes every twist over RefValues, or the infinite one, and each cycle
\* computes and writes the wheel velocities.
KinematicsGeometries ==
    { [radius |-> One, k |-> Zero, theta |-> 0, off_x |-> Zero, off_y |-> Zero],
      [radius |-> One, k |-> One, theta |-> 0, off_x |-> Zero, off_y |-> Zero],
      PlainGeometry }

RefValues == {D(-1), Zero, One}
RefTwists ==
    {<<a, b, c>> : a \in RefValues, b \in RefValues, c \in RefValues} \cup {InfTwist}

InitKinematics ==
    /\ lifecycle = "active"
    /\ chained = TRUE
    /\ clock = 1
    /\ params \in KinematicsGeometries
    /\ ref_timeout = 0
    /\ realtime_data = ActivatedMsg(1)
    /\ non_realtime_data = <<>>
    /\ new_data_available = FALSE
    /\ mutex = FALSE
    /\ pc_cb = "idle"
    /\ cb_msg = <<>>
    /\ reference_interfaces = ResizeRefs(<<>>)
    /\ command_interfaces = <<NaN, NaN, NaN, NaN>>
    /\ state_interfaces = <<Zero, Zero, Zero, Zero>>
    /\ write_log = <<>>
    /\ pub_turn = "REALTIME"
    /\ pub_msg = [DefaultStateMsg EXCEPT !.stamp = 1]
    /\ pc_rt = "idle"
    /\ ret = "NONE"
    /\ decision = "NONE"
    /\ telemetry = FALSE
    /\ fresh_activation = TRUE

NextKinematics ==
    \/ \E tw \in RefTwists : UpstreamWrite(tw)
    \/ update_and_write_commands(NoFailure)

SpecKinematics == InitKinematics /\ [][NextKinematics]_vars

TypeOK ==
    /\ lifecycle \in {"unconfigured", "inactive", "active", "crashed"}
    /\ lifecycle = "active" => realtime_data # <<>>
    /\ clock \in 1..MaxTime
    /\ pc_rt \in {"idle", "ref_done"}
    /\ new_data_available = (non_realtime_data # <<>>)

\* ------------------------------------------------------------------ claims
\* the step that is one call of update_reference_from_subscribers, and the
\* message that call reads
RefStep == ~chained /\ pc_rt = "idle" /\ pc_rt' = "ref_done"
CommandRead == ReadFromRT[1]
AgeRead == clock - CommandRead.stamp
AnyNaN(msg) == isnan(msg.x) \/ isnan(msg.y) \/ isnan(msg.z)

\* C1: with a timeout > 0, a call of update_reference_from_subscribers that reads
\* a command without NaN whose age is greater than the timeout leaves the three
\* reference interfaces at exactly 0, 0, 0.
C1_StaleCommandStops ==
    [][(RefStep /\ ref_timeout > 0 /\ ~AnyNaN(CommandRead) /\ AgeRead > ref_timeout)
        => reference_interfaces' = <<Zero, Zero, Zero>>]_vars

C1_Witness ==
    /\ pc_rt = "ref_done"
    /\ decision = "STOP"
    /\ ref_timeout > 0
    /\ reference_interfaces = <<Zero, Zero, Zero>>

\* C2: a call of update_reference_from_subscribers that reads a command with a NaN
\* component decides IGNORE and leaves the reference interfaces as they were,
\* whatever the timeout and the age.
C2_NaNCommandIgnored ==
    [][(RefStep /\ AnyNaN(CommandRead))
        => /\ reference_interfaces' = reference_interfaces
           /\ decision' = "IGNORE"]_vars

\* a command with one NaN component, older than the timeout, was ignored
C2_Witness ==
    /\ pc_rt = "ref_done"
    /\ decision = "IGNORE"
    /\ ~IsSentinel(realtime_data[1])
    /\ clock - realtime_data[1].stamp > ref_timeout

C4_NoRepeatedPass ==
    [][(RefStep /\ ref_timeout = 0 /\ decision = "PASS" /\ ~new_data_available
            /\ pc_cb = "idle")
        => decision' # "PASS"]_vars

\* C5: from the return of on_activate until the next reference_callback begins,
\* the message a control cycle would read from input_ref_ is the stop message
\* (linear x, linear y and angular z all NaN).
C5_ActivationResetsChannel ==
    fresh_activation => IsSentinel(ReadFromRT[1])

\* C8: a reference_callback whose message is, at receipt, older than a non-zero
\* timeout turns its message into the stop message and writes nothing into
\* input_ref_: both slots, the new-data flag and the mutex stay as they were
\* and no write is left pending.
C8_LateCommandRejected ==
    [][\A tw \in Twists, st \in Stamps :
        (/\ reference_callback(Msg(tw, st))
         /\ ref_timeout > 0
         /\ clock - Stamped(Msg(tw, st), clock).stamp > ref_timeout)
        => /\ cb_msg' = <<reset_controller_reference_msg(clock)>>
           /\ pc_cb' = "idle"
           /\ UNCHANGED buffer_vars]_vars

\* a valid command is visible in the channel and a later message was rejected
C8_Witness ==
    /\ lifecycle = "active"
    /\ ref_timeout > 0
    /\ pc_cb = "idle"
    /\ cb_msg # <<>>
    /\ IsSentinel(cb_msg[1])
    /\ ~IsSentinel(realtime_data[1])

Wheels == {FRONT_LEFT, FRONT_RIGHT, REAR_RIGHT, REAR_LEFT}

\* the step that is one call of update_and_write_commands
WriteStep == pc_rt = "ref_done" /\ pc_rt' = "idle"

\* C6: a control cycle that starts with a NaN reference interface writes exactly
\* 0 to each of the four command interfaces, and no control cycle writes NaN to
\* a command interface.
C6_NeverWritesNaN ==
    [][WriteStep
        => /\ (~RefsValid(reference_interfaces)
                  => \A w \in Wheels : \E i \in DOMAIN write_log' :
                        write_log'[i].itf = w /\ write_log'[i].value = Zero)
           /\ \A i \in DOMAIN write_log' : ~isnan(write_log'[i].value)]_vars

\* C7: on_deactivate calls set_value(NaN) exactly once for each of the four
\* command interfaces, and all four hold NaN when it returns.
C7_DeactivateReleasesOnce ==
    [][(lifecycle = "active" /\ lifecycle' = "inactive")
        => /\ command_interfaces' = <<NaN, NaN, NaN, NaN>>
           /\ Len(write_log') = NR_CMD_ITFS
           /\ \A w \in Wheels :
                Cardinality({i \in DOMAIN write_log' : write_log'[i].itf = w}) = 1
           /\ \A i \in DOMAIN write_log' : isnan(write_log'[i].value)]_vars

\* deactivated after a control cycle had written wheel velocities
C7_Witness ==
    /\ lifecycle = "inactive"
    /\ ret = "OK"
    /\ command_interfaces = <<NaN, NaN, NaN, NaN>>
    /\ Len(write_log) = NR_CMD_ITFS

\* C9: a control cycle in which a write to a command interface is reported as
\* failed returns an error, publishes no telemetry and writes no interface twice.
C9_WriteFailureReported ==
    (pc_rt = "idle" /\ \E i \in DOMAIN write_log : ~write_log[i].ok)
        => /\ ret = "ERROR"
           /\ ~telemetry
           /\ \A w \in Wheels :
                Cardinality({i \in DOMAIN write_log : write_log[i].itf = w}) <= 1

\* C10: a call of update_and_write_commands that finds the publisher's message
\* not available (the previous one is still being sent) runs to its end all the
\* same: it leaves the publisher's message and turn as they were, issues its
\* four writes, resets the reference interfaces to NaN and returns OK.
C10_BusyPublisherSkipped ==
    [][(WriteStep /\ pub_turn = "NON_REALTIME")
        => /\ UNCHANGED <<pub_msg, pub_turn>>
           /\ ~telemetry'
           /\ Len(write_log') = NR_CMD_ITFS
           /\ reference_interfaces' = NaNRefs
           /\ ret' = "OK"]_vars

\* a cycle wrote wheel velocities for a reference the publisher's message does
\* not show, because the publication was skipped
C10_Witness ==
    /\ lifecycle = "active"
    /\ pc_rt = "idle"
    /\ pub_turn = "NON_REALTIME"
    /\ ~telemetry
    /\ ret = "OK"
    /\ Len(write_log) = NR_CMD_ITFS
    /\ write_log[1].value # Zero
    /\ pub_msg.ref_x # One

\* C11: a published command is replaced, never modified: a call of
\* update_reference_from_subscribers leaves the message it read from input_ref_
\* as it was, so the control cycle's next read (without a new publish) returns
\* the same message.
C11_CycleLeavesCommand ==
    [][RefStep => realtime_data' = <<CommandRead>>]_vars

\* C12: a call of update_reference_from_subscribers that begins after a
\* writeFromNonRT completed (since activation) reads the message of the last
\* completed writeFromNonRT or a later one, never the message that was visible
\* before it, whatever a reference_callback is doing at that moment.
C12_ReadsLastPublish ==
    [][(RefStep /\ new_data_available /\ ~fresh_activation)
        => CommandRead = non_realtime_data[1]]_vars

Zeros == <<Zero, Zero, Zero, Zero>>

\* the last handler that wrote the command interfaces was a control cycle
LastWriterWasCycle ==
    /\ Len(write_log) = NR_CMD_ITFS
    /\ \A i \in DOMAIN write_log : write_log[i].ok /\ ~isnan(write_log[i].value)

\* C13: in standalone mode, a call of update_and_write_commands in a cycle that
\* decided IGNORE writes the four wheel velocities the previous control cycle
\* wrote (after a PASS cycle: the velocities of the passed twist).
C13_IgnoreKeepsWheels ==
    [][(WriteStep /\ ~chained /\ decision = "IGNORE" /\ LastWriterWasCycle)
        => command_interfaces' = command_interfaces]_vars

\* C14: every call of update_and_write_commands leaves the three reference
\* interfaces NaN, so a cycle for which nobody wrote a reference (chained mode,
\* upstream silent) starts from NaN references, not from those of the cycle
\* before.
C14_ReferencesSingleUse ==
    [][/\ WriteStep => \A i \in 1..NR_REF_ITFS : isnan(reference_interfaces'[i])
       /\ (chained /\ pc_rt = "idle" /\ pc_rt' = "ref_done"
                /\ reference_interfaces' = reference_interfaces)
            => \A i \in 1..NR_REF_ITFS : isnan(reference_interfaces[i])]_vars

\* in chained mode a cycle drove the wheels from an upstream reference and the
\* references are NaN again
C14_Witness ==
    /\ lifecycle = "active"
    /\ chained
    /\ pc_rt = "idle"
    /\ write_log # <<>>
    /\ write_log[1].value = D(2)
    /\ \A i \in 1..NR_REF_ITFS : isnan(reference_interfaces[i])

IsFinite(v) == v[2] # 0

\* (c_x - c_y - k*w_z)/radius, (c_x + c_y + k*w_z)/radius,
\* (c_x - c_y + k*w_z)/radius, (c_x + c_y - k*w_z)/radius
SignLaw(refs, p) ==
    LET kw == DMul(p.k, refs[3])
    IN <<DDiv(DSub(DSub(refs[1], refs[2]), kw), p.radius),
         DDiv(DAdd(DAdd(refs[1], refs[2]), kw), p.radius),
         DDiv(DAdd(DSub(refs[1], refs[2]), kw), p.radius),
         DDiv(DSub(DAdd(refs[1], refs[2]), kw), p.radius)>>

NoFrameOffset(p) == p.theta = 0 /\ p.off_x = Zero /\ p.off_y = Zero

\* the calls set_value(w[1]) on FRONT_LEFT, set_value(w[2]) on FRONT_RIGHT,
\* set_value(w[3]) on REAR_RIGHT, set_value(w[4]) on REAR_LEFT, in this order
WrittenInOrder(log, w) ==
    /\ Len(log) = NR_CMD_ITFS
    /\ log[1].itf = FRONT_LEFT /\ log[1].value = w[1]
    /\ log[2].itf = FRONT_RIGHT /\ log[2].value = w[2]
    /\ log[3].itf = REAR_RIGHT /\ log[3].value = w[3]
    /\ log[4].itf = REAR_LEFT /\ log[4].value = w[4]

C16_ChainedSwitchAccepted ==
    [][/\ \A b \in BOOLEAN : on_set_chained_mode(b)
       /\ (chained' # chained)
            => UNCHANGED <<buffer_vars, reference_interfaces, command_interfaces>>]_vars

\* the controller was switched to chained mode, ran a cycle there, and was
\* switched back to standalone mode
C16_Witness ==
    /\ lifecycle = "inactive"
    /\ ~chained
    /\ ret = "OK"
    /\ decision = "NONE"
    /\ Len(reference_interfaces) = NR_REF_ITFS
    /\ realtime_data # <<>>

\* C17: in standalone mode with a timeout > 0, a control cycle that reads a
\* command whose age exceeds the timeout, or the NaN message such a cycle left
\* behind, decides STOP or IGNORE, leaves a message with NaN behind and ends
\* with references that are all 0 or all NaN; the update_and_write_commands of such a cycle writes exactly 0 to
\* each of the four command interfaces.  So from the first cycle after expiry
\* until the next accepted publish every cycle commands a halt.
C17_HaltAfterTimeout ==
    [][/\ (RefStep /\ ref_timeout > 0
                /\ (AnyNaN(CommandRead) \/ AgeRead > ref_timeout))
            => /\ decision' \in {"STOP", "IGNORE"}
               /\ AnyNaN(realtime_data'[1])
               /\ reference_interfaces' \in {<<Zero, Zero, Zero>>, <<NaN, NaN, NaN>>}
       /\ (WriteStep /\ ~chained /\ ref_timeout > 0 /\ decision \in {"STOP", "IGNORE"})
            => /\ command_interfaces' = Zeros
               /\ Len(write_log') = NR_CMD_ITFS
               /\ \A i \in DOMAIN write_log' : write_log'[i].value = Zero]_vars

\* a cycle stopped for an expired command (its telemetry shows the references
\* 0, 0, 0) and a later cycle, which ignored the consumed command and found the
\* publisher busy, has written 0 to the four wheels as well
C17_Witness ==
    /\ lifecycle = "active"
    /\ ~chained
    /\ ref_timeout > 0
    /\ pc_rt = "idle"
    /\ pub_turn = "NON_REALTIME"
    /\ pub_msg.ref_x = Zero
    /\ ~telemetry
    /\ decision = "IGNORE"
    /\ command_interfaces = Zeros
    /\ IsSentinel(realtime_data[1])
    /\ ~new_data_available
    /\ pc_cb = "idle"

\* C18: with a timeout > 0, update_reference_from_subscribers decides PASS for a
\* valid command of age <= timeout and leaves the command as it is; decides STOP
\* for a valid command of age > timeout and turns it into the NaN message;
\* decides IGNORE for the NaN message and leaves it.  A cycle that follows a
\* STOP cycle and reads the same slot never decides STOP (nor PASS) again.
C18_PassStopIgnore ==
    [][(RefStep /\ ref_timeout > 0)
        => /\ (~AnyNaN(CommandRead) /\ AgeRead <= ref_timeout)
                => decision' = "PASS" /\ realtime_data' = <<CommandRead>>
           /\ (~AnyNaN(CommandRead) /\ AgeRead > ref_timeout)
                => decision' = "STOP" /\ IsSentinel(realtime_data'[1])
           /\ IsSentinel(CommandRead)
                => decision' = "IGNORE" /\ realtime_data' = <<CommandRead>>
           /\ (decision = "STOP" /\ ~Swaps) => decision' = "IGNORE"]_vars

\* a command was passed (the wheels still turn at 2, 2, 2, 2 from that cycle),
\* then expired, and this cycle decided STOP and consumed it
C18_Witness ==
    /\ lifecycle = "active"
    /\ ref_timeout > 0
    /\ pc_rt = "ref_done"
    /\ decision = "STOP"
    /\ command_interfaces = <<D(2), D(2), D(2), D(2)>>
    /\ IsSentinel(realtime_data[1])
    /\ clock - realtime_data[1].stamp > ref_timeout
    /\ ~new_data_available

\* a step of reference_callback up to its decision: the callback was idle and
\* now holds another message, or is the first one since on_activate
CallbackStep ==
    /\ pc_cb = "idle"
    /\ lifecycle' = lifecycle
    /\ cb_msg' # <<>>
    /\ cb_msg' # cb_msg \/ fresh_activation' # fresh_activation

\* C19: a reference_callback that finds its message older than a non-zero
\* timeout (it then holds the reset message, never the old one) starts no
\* write, and the message a control cycle would read, and what the staleness
\* policy would decide for it, are the same after the callback as before it.
C19_RejectionKeepsChannel ==
    [][(/\ CallbackStep
        /\ ref_timeout > 0
        /\ IsSentinel(cb_msg'[1]) \/ clock - cb_msg'[1].stamp > ref_timeout)
        => /\ pc_cb' = "idle"
           /\ ReadFromRT' = ReadFromRT
           /\ Swaps' = Swaps
           /\ Branch(ReadFromRT'[1], clock' - ReadFromRT'[1].stamp, ref_timeout')
                = Branch(ReadFromRT[1], clock - ReadFromRT[1].stamp, ref_timeout)]_vars

\* a message was rejected just now, and the command accepted before it is
\* still the one a control cycle reads and passes
C19_Witness ==
    /\ lifecycle = "active"
    /\ ~chained
    /\ ref_timeout > 0
    /\ pc_cb = "idle"
    /\ cb_msg = <<reset_controller_reference_msg(clock)>>
    /\ pc_rt = "idle"
    /\ is_msg_valid(ReadFromRT[1])
    /\ Branch(ReadFromRT[1], clock - ReadFromRT[1].stamp, ref_timeout) = "PASS"

\* C20: a call of update_and_write_commands that gets the publisher's lock
\* stores in the publisher's message the three reference interfaces as they were
\* when the call began (the ones its kinematics used, not the NaN of the reset
\* at its end) and the measured velocities of the state interfaces FRONT_LEFT,
\* FRONT_RIGHT, REAR_RIGHT, REAR_LEFT as front_left, front_right, back_right,
\* back_left, and hands the message to the publisher.
C20_TelemetrySnapshot ==
    [][(WriteStep /\ telemetry')
        => /\ pub_msg'.ref_x = reference_interfaces[1]
           /\ pub_msg'.ref_y = reference_interfaces[2]
           /\ pub_msg'.ref_z = reference_interfaces[3]
           /\ pub_msg'.front_left = state_interfaces[FRONT_LEFT + 1]
           /\ pub_msg'.front_right = state_interfaces[FRONT_RIGHT + 1]
           /\ pub_msg'.back_right = state_interfaces[REAR_RIGHT + 1]
           /\ pub_msg'.back_left = state_interfaces[REAR_LEFT + 1]
           /\ pub_msg'.stamp = clock
           /\ pub_turn = "REALTIME" /\ pub_turn' = "NON_REALTIME"]_vars

\* a cycle drove the wheels from the reference (1, 0, 0), published it together
\* with the measurements 1, 2, 3, 4 and reset the references
C20_Witness ==
    /\ lifecycle = "active"
    /\ pc_rt = "idle"
    /\ telemetry
    /\ pub_msg.ref_x = One /\ pub_msg.ref_y = Zero /\ pub_msg.ref_z = Zero
    /\ pub_msg.front_left = D(1) /\ pub_msg.front_right = D(2)
    /\ pub_msg.back_right = D(3) /\ pub_msg.back_left = D(4)
    /\ state_interfaces = <<D(1), D(2), D(3), D(4)>>
    /\ command_interfaces = <<D(2), D(2), D(2), D(2)>>
    /\ \A i \in 1..NR_REF_ITFS : isnan(reference_interfaces[i])

====
